---- MODULE Spec2Model ----
(***************************************************************************)
(* Model of CVSdupRmvr.py: process_csv reads a CSV file, keeps the data    *)
(* rows that contain "San Diego" or "La Jolla", sorts them by column 0,    *)
(* keeps the first row per column-0 value and writes header + rows.        *)
(*                                                                         *)
(* A string is a sequence of code points, a row a sequence of strings, a   *)
(* file a sequence of code points (the text csv.writer produces and        *)
(* csv.reader consumes).                                                   *)
(***************************************************************************)
EXTENDS Integers, Sequences, FiniteSets, TLC

VARIABLES srcStatus, srcText, dstStatus, dstExists, dstText,
          pc, run, outfile, reports,
          header, data_rows, has_header,
          pre_filtered_rows, final_filtered_rows, firstOut

vars == <<srcStatus, srcText, dstStatus, dstExists, dstText,
          pc, run, outfile, reports,
          header, data_rows, has_header,
          pre_filtered_rows, final_filtered_rows, firstOut>>

(* ---------------------------- bounds ----------------------------------- *)
\* largest number of data rows (rows after the header) of a source file
MaxData == 3

(* ------------------------ program constants ---------------------------- *)
COMMA == 44
QUOTE == 34
CR == 13
LF == 10
\* "San Diego"
SanDiego == <<83, 97, 110, 32, 68, 105, 101, 103, 111>>
\* "La Jolla"
LaJolla == <<76, 97, 32, 74, 111, 108, 108, 97>>

(* --------------------------- input pools ------------------------------- *)
\* "san diego": the keyword in another case
LowerSanDiego == <<115, 97, 110, 32, 100, 105, 101, 103, 111>>
\* x"La Jolla,  : a field the writer has to quote
QuotedLaJolla == <<120, 34, 76, 97, 32, 74, 111, 108, 108, 97, 44>>

RowPool ==
    { <<>>,                          \* a blank line: zero fields
      << <<65>>, SanDiego >>,        \* A,San Diego
      << <<66>>, SanDiego >>,        \* B,San Diego
      << <<66>>, LaJolla >>,         \* B,La Jolla
      << <<65>>, LowerSanDiego >>,   \* A,san diego
      << <<>>, QuotedLaJolla >> }    \* ,"x""La Jolla,"

HeaderPool ==
    { <<>>,                          \* a blank first line
      << <<66>> >>,                  \* B
      << <<65>>, SanDiego >> }       \* A,San Diego

\* what the destination path holds before the call, when it exists: "old"
OldText == <<111, 108, 100, CR, LF>>

RECURSIVE SeqsUpTo(_, _)
SeqsUpTo(S, n) ==
    IF n = 0 THEN { <<>> }
    ELSE LET shorter == SeqsUpTo(S, n - 1)
         IN  shorter \cup { Append(s, x) : s \in shorter, x \in S }

\* the tables a source file can hold: no row at all, or a header and data
Tables ==
    { <<>> } \cup { <<h>> \o d : h \in HeaderPool, d \in SeqsUpTo(RowPool, MaxData) }

(* --------------------------- strings ----------------------------------- *)
\* k in s
Contains(s, k) ==
    \E i \in 1..(Len(s) - Len(k) + 1) : SubSeq(s, i, i + Len(k) - 1) = k

\* default string ordering: lexicographic by code point
RECURSIVE StrLess(_, _)
StrLess(a, b) ==
    IF Len(b) = 0 THEN FALSE
    ELSE IF Len(a) = 0 THEN TRUE
    ELSE IF a[1] # b[1] THEN a[1] < b[1]
    ELSE StrLess(Tail(a), Tail(b))

\* ",".join(row)
RECURSIVE Join(_)
Join(row) ==
    IF Len(row) = 0 THEN <<>>
    ELSE IF Len(row) = 1 THEN row[1]
    ELSE row[1] \o <<COMMA>> \o Join(Tail(row))

(* --------------------------- csv.writer -------------------------------- *)
NeedsQuote(f) == \E i \in DOMAIN f : f[i] \in {COMMA, QUOTE, CR, LF}

RECURSIVE DoubleQuotes(_)
DoubleQuotes(f) ==
    IF Len(f) = 0 THEN <<>>
    ELSE (IF f[1] = QUOTE THEN <<QUOTE, QUOTE>> ELSE <<f[1]>>) \o DoubleQuotes(Tail(f))

QuoteField(f) ==
    IF NeedsQuote(f) THEN <<QUOTE>> \o DoubleQuotes(f) \o <<QUOTE>> ELSE f

RECURSIVE JoinQuoted(_)
JoinQuoted(row) ==
    IF Len(row) = 0 THEN <<>>
    ELSE IF Len(row) = 1 THEN QuoteField(row[1])
    ELSE QuoteField(row[1]) \o <<COMMA>> \o JoinQuoted(Tail(row))

\* writer.writerow(row): a single empty field is written quoted
WriteRow(row) ==
    IF Len(row) = 1 /\ row[1] = <<>> THEN <<QUOTE, QUOTE, CR, LF>>
    ELSE JoinQuoted(row) \o <<CR, LF>>

\* writer.writerows(rows)
RECURSIVE WriteRows(_)
WriteRows(rows) ==
    IF Len(rows) = 0 THEN <<>>
    ELSE WriteRow(rows[1]) \o WriteRows(Tail(rows))

(* --------------------------- csv.reader -------------------------------- *)
IsNL(c) == c \in {CR, LF}

\* length of the line terminator at position i
NLLen(text, i) ==
    IF text[i] = CR /\ i < Len(text) /\ text[i + 1] = LF THEN 2 ELSE 1

\* the reader's state machine, one character at a time
RECURSIVE ParseFrom(_, _, _, _, _, _)
ParseFrom(text, i, st, field, row, rows) ==
    IF i > Len(text)
    THEN IF st = "START_RECORD" THEN rows ELSE Append(rows, Append(row, field))
    ELSE LET c == text[i] IN
      CASE st = "START_RECORD" ->
             IF IsNL(c)
             THEN ParseFrom(text, i + NLLen(text, i), "START_RECORD", <<>>, <<>>,
                            Append(rows, <<>>))
             ELSE ParseFrom(text, i, "START_FIELD", <<>>, <<>>, rows)
        [] st = "START_FIELD" ->
             IF IsNL(c)
             THEN ParseFrom(text, i + NLLen(text, i), "START_RECORD", <<>>, <<>>,
                            Append(rows, Append(row, <<>>)))
             ELSE IF c = QUOTE
             THEN ParseFrom(text, i + 1, "IN_QUOTED_FIELD", <<>>, row, rows)
             ELSE IF c = COMMA
             THEN ParseFrom(text, i + 1, "START_FIELD", <<>>, Append(row, <<>>), rows)
             ELSE ParseFrom(text, i + 1, "IN_FIELD", <<c>>, row, rows)
        [] st = "IN_FIELD" ->
             IF IsNL(c)
             THEN ParseFrom(text, i + NLLen(text, i), "START_RECORD", <<>>, <<>>,
                            Append(rows, Append(row, field)))
             ELSE IF c = COMMA
             THEN ParseFrom(text, i + 1, "START_FIELD", <<>>, Append(row, field), rows)
             ELSE ParseFrom(text, i + 1, "IN_FIELD", Append(field, c), row, rows)
        [] st = "IN_QUOTED_FIELD" ->
             IF c = QUOTE
             THEN ParseFrom(text, i + 1, "QUOTE_IN_QUOTED_FIELD", field, row, rows)
             ELSE ParseFrom(text, i + 1, "IN_QUOTED_FIELD", Append(field, c), row, rows)
        [] OTHER ->  \* QUOTE_IN_QUOTED_FIELD
             IF c = QUOTE
             THEN ParseFrom(text, i + 1, "IN_QUOTED_FIELD", Append(field, c), row, rows)
             ELSE IF c = COMMA
             THEN ParseFrom(text, i + 1, "START_FIELD", <<>>, Append(row, field), rows)
             ELSE IF IsNL(c)
             THEN ParseFrom(text, i + NLLen(text, i), "START_RECORD", <<>>, <<>>,
                            Append(rows, Append(row, field)))
             ELSE ParseFrom(text, i + 1, "IN_FIELD", Append(field, c), row, rows)

\* list(csv.reader(infile))
ReadRows(text) == ParseFrom(text, 1, "START_RECORD", <<>>, <<>>, <<>>)

(* ------------------------ the transformation --------------------------- *)
\* the keyword test of the pre-filter
KeepRowAnyCase(row) ==
    \/ Contains(Join(row), SanDiego)
    \/ Contains(Join(row), LaJolla)
    \/ Contains(Join(row), LowerSanDiego)

KeepRowOrEmpty(row) ==
    \/ Len(row) = 0
    \/ Contains(Join(row), SanDiego)
    \/ Contains(Join(row), LaJolla)

KeepRow(row) ==
    \/ Contains(Join(row), SanDiego)
    \/ Contains(Join(row), LaJolla)

\* the pre-filter loop
RECURSIVE FilterRows(_)
FilterRows(rows) ==
    IF Len(rows) = 0 THEN <<>>
    ELSE IF KeepRow(rows[1]) THEN <<rows[1]>> \o FilterRows(Tail(rows))
    ELSE FilterRows(Tail(rows))

\* the sort key raises IndexError on a row without fields
SortRaises(rows) == \E i \in DOMAIN rows : Len(rows[i]) = 0

\* place row after every row of the sorted sequence whose key is not larger
RECURSIVE InsertUnstable(_, _)
InsertUnstable(sorted, row) ==
    IF Len(sorted) = 0 THEN <<row>>
    ELSE IF StrLess(sorted[1][1], row[1])
         THEN <<sorted[1]>> \o InsertUnstable(Tail(sorted), row)
         ELSE <<row>> \o sorted

RECURSIVE Insert(_, _)
Insert(sorted, row) ==
    IF Len(sorted) = 0 THEN <<row>>
    ELSE IF StrLess(row[1], sorted[1][1])
         THEN <<row>> \o sorted
         ELSE <<sorted[1]>> \o Insert(Tail(sorted), row)

RECURSIVE SortFrom(_, _)
SortFrom(sorted, rows) ==
    IF Len(rows) = 0 THEN sorted
    ELSE SortFrom(Insert(sorted, rows[1]), Tail(rows))

\* list.sort(key=lambda row: row[0]): stable, ascending
SortRowsUnsorted(rows) == rows

SortRows(rows) == SortFrom(<<>>, rows)

\* seen_first_column_values = set()
InitialSeenHeader == IF Len(header) > 0 THEN {header[1]} ELSE {}

InitialSeen == {}

\* the dedup loop: a row is kept iff its column 0 was not seen before
DedupFromKeepAll(rows, seen) == rows

RECURSIVE DedupFrom(_, _)
DedupFrom(rows, seen) ==
    IF Len(rows) = 0 THEN <<>>
    ELSE IF rows[1][1] \notin seen
         THEN <<rows[1]>> \o DedupFrom(Tail(rows), seen \cup {rows[1][1]})
         ELSE DedupFrom(Tail(rows), seen)

\* what the early return writes
EarlyOutputAlways(hh, h) == WriteRow(h)

EarlyOutput(hh, h) == IF hh THEN WriteRow(h) ELSE <<>>

\* what the normal path writes
OutputTextNoHeader(hh, h, rows) == WriteRows(rows)

OutputText(hh, h, rows) == (IF hh THEN WriteRow(h) ELSE <<>>) \o WriteRows(rows)

\* the except clauses: the report each exception kind ends in
HandlerGeneric(exc) ==
    CASE exc = "IndexError" -> "malformed"
      [] OTHER -> "unexpected"

Handler(exc) ==
    CASE exc = "FileNotFoundError" -> "not_found"
      [] exc = "IndexError" -> "malformed"
      [] OTHER -> "unexpected"

\* the exception open(path) raises, "none" when it succeeds
OpenSource ==
    CASE srcStatus = "missing" -> "FileNotFoundError"
      [] srcStatus = "denied" -> "PermissionError"
      [] OTHER -> "none"

OpenDest ==
    CASE dstStatus = "nodir" -> "FileNotFoundError"
      [] dstStatus = "denied" -> "PermissionError"
      [] OTHER -> "none"

(* ----------------------------- states ---------------------------------- *)
Init ==
    /\ \E t \in Tables, s \in {"ok", "missing", "denied"} :
          /\ srcStatus = s
          /\ s # "ok" => t = <<>>
          /\ srcText = WriteRows(t)
    /\ dstStatus \in {"ok", "nodir", "denied"}
    /\ dstExists \in BOOLEAN
    /\ dstStatus = "nodir" => ~dstExists
    /\ dstStatus = "denied" => dstExists
    /\ dstText = IF dstExists THEN OldText ELSE <<>>
    /\ pc = "read"
    /\ run = 1
    /\ outfile = "unopened"
    /\ reports = <<>>
    /\ header = <<>>
    /\ data_rows = <<>>
    /\ has_header = FALSE
    /\ pre_filtered_rows = <<>>
    /\ final_filtered_rows = <<>>
    /\ firstOut = <<>>

\* an exception reaches the except clauses
Raise(exc) ==
    /\ reports' = Append(reports, Handler(exc))
    /\ pc' = "done"

\* step 1: open the source, split header and data rows
Read ==
    /\ pc = "read"
    /\ IF OpenSource # "none"
       THEN /\ Raise(OpenSource)
            /\ UNCHANGED <<header, data_rows, has_header>>
       ELSE LET rows == ReadRows(srcText) IN
            /\ header' = IF Len(rows) = 0 THEN <<>> ELSE rows[1]
            /\ data_rows' = IF Len(rows) = 0 THEN <<>> ELSE Tail(rows)
            /\ has_header' = (Len(rows) # 0)
            /\ pc' = "check"
            /\ UNCHANGED reports
    /\ UNCHANGED <<srcStatus, srcText, dstStatus, dstExists, dstText, run, outfile,
                   pre_filtered_rows, final_filtered_rows, firstOut>>

\* the early return of a source without data rows
EmptyInput ==
    /\ pc = "check"
    /\ data_rows = <<>>
    /\ IF OpenDest # "none"
       THEN /\ reports' = Append(Append(reports, "no_data"), Handler(OpenDest))
            /\ outfile' = "failed"
            /\ UNCHANGED <<dstExists, dstText>>
       ELSE /\ reports' = Append(reports, "no_data")
            /\ outfile' = "closed"
            /\ dstExists' = TRUE
            /\ dstText' = EarlyOutput(has_header, header)
    /\ pc' = "done"
    /\ UNCHANGED <<srcStatus, srcText, dstStatus, run, header, data_rows, has_header,
                   pre_filtered_rows, final_filtered_rows, firstOut>>

\* step 2: the keyword pre-filter
Filter ==
    /\ pc = "check"
    /\ data_rows # <<>>
    /\ pre_filtered_rows' = FilterRows(data_rows)
    /\ pc' = "sort"
    /\ UNCHANGED <<srcStatus, srcText, dstStatus, dstExists, dstText, run, outfile,
                   reports, header, data_rows, has_header, final_filtered_rows,
                   firstOut>>

\* step 3: sort by column 0
Sort ==
    /\ pc = "sort"
    /\ IF SortRaises(pre_filtered_rows)
       THEN /\ Raise("IndexError")
            /\ UNCHANGED pre_filtered_rows
       ELSE /\ pre_filtered_rows' = SortRows(pre_filtered_rows)
            /\ pc' = "dedup"
            /\ UNCHANGED reports
    /\ UNCHANGED <<srcStatus, srcText, dstStatus, dstExists, dstText, run, outfile,
                   header, data_rows, has_header, final_filtered_rows, firstOut>>

\* step 4: first row per column-0 value
Dedup ==
    /\ pc = "dedup"
    /\ final_filtered_rows' = DedupFrom(pre_filtered_rows, InitialSeen)
    /\ pc' = "write"
    /\ UNCHANGED <<srcStatus, srcText, dstStatus, dstExists, dstText, run, outfile,
                   reports, header, data_rows, has_header, pre_filtered_rows,
                   firstOut>>

\* step 5: open the destination, write header and rows, report success
Write ==
    /\ pc = "write"
    /\ IF OpenDest # "none"
       THEN /\ Raise(OpenDest)
            /\ outfile' = "failed"
            /\ UNCHANGED <<dstExists, dstText>>
       ELSE /\ dstExists' = TRUE
            /\ dstText' = OutputText(has_header, header, final_filtered_rows)
            /\ outfile' = "closed"
            /\ reports' = Append(reports, "success")
            /\ pc' = "done"
    /\ UNCHANGED <<srcStatus, srcText, dstStatus, run, header, data_rows, has_header,
                   pre_filtered_rows, final_filtered_rows, firstOut>>

\* a second invocation whose source is the output the first one produced
Rerun ==
    /\ pc = "done"
    /\ run = 1
    /\ outfile = "closed"
    /\ run' = 2
    /\ srcText' = dstText
    /\ firstOut' = dstText
    /\ pc' = "read"
    /\ outfile' = "unopened"
    /\ reports' = <<>>
    /\ header' = <<>>
    /\ data_rows' = <<>>
    /\ has_header' = FALSE
    /\ pre_filtered_rows' = <<>>
    /\ final_filtered_rows' = <<>>
    /\ UNCHANGED <<srcStatus, dstStatus, dstExists, dstText>>

Next == Read \/ EmptyInput \/ Filter \/ Sort \/ Dedup \/ Write \/ Rerun

Spec == Init /\ [][Next]_vars

(* ------------------------- observed input/output ----------------------- *)
Range(s) == { s[i] : i \in DOMAIN s }

\* the rows of the source file and of the destination file
InRows == ReadRows(srcText)
InData == IF Len(InRows) = 0 THEN <<>> ELSE Tail(InRows)
OutRows == ReadRows(dstText)
OutData == IF Len(OutRows) = 0 THEN <<>> ELSE Tail(OutRows)

\* the call has returned after writing the destination
Written == pc = "done" /\ outfile = "closed"

\* the comma-joined fields contain "San Diego" or "La Jolla"
HasKeyword(row) ==
    Contains(Join(row), SanDiego) \/ Contains(Join(row), LaJolla)

\* two keyword rows of the source share their column 0
DuplicateKeyInput ==
    \E i, j \in DOMAIN InData :
        /\ i < j
        /\ HasKeyword(InData[i]) /\ HasKeyword(InData[j])
        /\ InData[i][1] = InData[j][1]
        /\ InData[i] # InData[j]

(* ------------------------------ claims --------------------------------- *)

\* C1: after process_csv has written, no two data rows of the output (the
\* rows after the header) have equal column-0 values.
C1_NoDuplicateKeys ==
    Written =>
        LET out == OutData
        IN  \A i, j \in DOMAIN out :
                i < j => /\ Len(out[i]) > 0
                         /\ Len(out[j]) > 0
                         /\ out[i][1] # out[j][1]

C1_Witness ==
    Written /\ DuplicateKeyInput /\ Len(OutData) >= 2

\* C2: the data rows of the output are in ascending order of column 0 under
\* code-point string ordering: no row's column 0 is larger than the next one's.
C2_SortedByKey ==
    Written =>
        LET out == OutData
        IN  \A i \in 1..(Len(out) - 1) : ~StrLess(out[i + 1][1], out[i][1])

C2_Witness ==
    /\ Written
    /\ Len(OutData) >= 2
    /\ \E i, j \in DOMAIN InData :
          /\ i < j
          /\ HasKeyword(InData[i]) /\ HasKeyword(InData[j])
          /\ StrLess(InData[j][1], InData[i][1])

\* C3: every data row of the output is a data row of the input with the same
\* fields, and its comma-joined fields contain "San Diego" or "La Jolla" in
\* exactly that case; a row matching only in another case is not in the output.
C3_OutputSubsetOfKeywordRows ==
    Written =>
        LET in == InData
            out == OutData
        IN  \A k \in DOMAIN out :
                /\ \E i \in DOMAIN in : in[i] = out[k]
                /\ HasKeyword(out[k])

C3_Witness ==
    /\ Written
    /\ Len(OutData) >= 1
    /\ \E i \in DOMAIN InData :
          Contains(Join(InData[i]), LowerSanDiego) /\ ~HasKeyword(InData[i])
    /\ \E k \in DOMAIN OutData : Len(OutData[k]) >= 2 /\ NeedsQuote(OutData[k][2])

\* C4: for every column-0 value carried by a keyword row of the input, the
\* output has exactly one row with that column 0, and it is the keyword row
\* with that key that comes first in input order.
C4_FirstOccurrenceWins ==
    Written =>
        LET in == InData
            out == OutData
        IN  \A i \in DOMAIN in :
                HasKeyword(in[i]) =>
                    LET v == in[i][1]
                        first == CHOOSE j \in DOMAIN in :
                                    /\ HasKeyword(in[j])
                                    /\ in[j][1] = v
                                    /\ \A m \in 1..(j - 1) :
                                          ~(HasKeyword(in[m]) /\ in[m][1] = v)
                        hits == { k \in DOMAIN out : Len(out[k]) > 0 /\ out[k][1] = v }
                    IN  /\ Cardinality(hits) = 1
                        /\ \A k \in hits : out[k] = in[first]

C4_Witness ==
    /\ Written
    /\ DuplicateKeyInput
    /\ \E i \in DOMAIN InData :
          HasKeyword(InData[i]) /\ StrLess(InData[i][1], <<66>>)

\* C5: running process_csv on the output of a run that succeeded produces an
\* output identical to the first one.
C5_Idempotent ==
    (run = 2 /\ Written) => dstText = firstOut

C5_Witness ==
    /\ run = 2
    /\ Written
    /\ Len(ReadRows(firstOut)) >= 3
    /\ "success" \in Range(reports)

\* C6: when the source has a row and an output is written, the first output
\* row is the first input row, whatever it contains; a keyword data row with
\* the header's column 0 is still emitted, so the header is not a seen key.
C6_HeaderPassThrough ==
    Written =>
        LET in == InRows
            out == OutRows
        IN  Len(in) > 0 =>
              /\ Len(out) > 0
              /\ out[1] = in[1]
              /\ \A i \in 2..Len(in) :
                    (/\ HasKeyword(in[i])
                     /\ Len(in[1]) > 0
                     /\ in[i][1] = in[1][1])
                    => \E k \in 2..Len(out) : out[k][1] = in[1][1]

C6_Witness ==
    /\ Written
    /\ Len(InRows) > 0
    /\ Len(InRows[1]) > 0
    /\ ~HasKeyword(InRows[1])
    /\ \E i, j \in DOMAIN InData :
          /\ HasKeyword(InData[i]) /\ InData[i][1] = InRows[1][1]
          /\ HasKeyword(InData[j]) /\ StrLess(InData[j][1], InRows[1][1])

\* C7: with a source without data rows the step after the read is the early
\* return: filter, sort and dedup are not entered, "no data" is reported and
\* success is not, and a destination that opens holds exactly the header row
\* (nothing when the source had no row).
C7_EarlyReturn ==
    [][(pc = "check" /\ Len(InRows) <= 1) =>
          /\ pc' = "done"
          /\ UNCHANGED <<pre_filtered_rows, final_filtered_rows>>
          /\ "no_data" \in Range(reports')
          /\ "success" \notin Range(reports')
          /\ OpenDest = "none" =>
                /\ outfile' = "closed"
                /\ OutRows' = InRows
                /\ Len(InRows) = 0 => dstText' = <<>>]_vars

C7_Witness ==
    /\ Written
    /\ Len(InRows) = 1
    /\ Len(InRows[1]) > 0
    /\ OutRows = InRows
    /\ reports = <<"no_data">>

\* C8: with a missing source the only step reports file-not-found and
\* returns; the destination is not opened and keeps its content or absence.
C8_MissingSource ==
    [][srcStatus = "missing" =>
          /\ pc' = "done"
          /\ reports' = <<"not_found">>
          /\ outfile' = "unopened"
          /\ UNCHANGED <<dstExists, dstText>>]_vars

C8_Witness ==
    /\ srcStatus = "missing"
    /\ pc = "done"
    /\ dstStatus = "ok"
    /\ dstExists
    /\ dstText = OldText

C10_NotFoundOnlyForSource ==
    /\ "not_found" \in Range(reports) => srcStatus = "missing"
    /\ (pc = "done" /\ srcStatus = "missing") => "not_found" \in Range(reports)
    /\ outfile = "failed" => "unexpected" \in Range(reports)

====
